---- MODULE Spec2Model ----
(***************************************************************************)
(* Model of the Amul stock watcher: one process invocation (a "run") of    *)
(* ProductAvailabilityChecker after another, against one Redis server that *)
(* outlives the runs.  A run may stop at any step (Crash); Redis may be    *)
(* unreachable for any single command; a key that carries a time-to-live   *)
(* may expire at any moment (Expire).                                      *)
(***************************************************************************)
EXTENDS Integers, Sequences, FiniteSets, TLC

\* ------------------------------------------------------------------ bounds
\* Longest raw catalog the storefront returns in the model.
MaxCatalog == 2

\* Largest worker budget (Config.MAX_WORKERS) a batch is given.
MaxWorkers == 2

\* Longest alias list a batch is given.
MaxBatch == 3

\* ------------------------------------------------------------- input sets
\* Product identifiers; NoAlias is a catalog entry without an "alias".
Aliases == {"a", "b", "c"}

NoAlias == ""

\* Raw numeric "available" field of a catalog entry.
RawAvailable == {0, 1}

RawEntries == [alias : Aliases \cup {NoAlias}, available : RawAvailable]

Catalogs == UNION {[1..n -> RawEntries] : n \in 0..MaxCatalog}

\* Config.PINCODE: unset (None) or a pincode.
NoPincode == "None"

Pincodes == {NoPincode, "110001"}

DEFAULT_STORE == "delhi"

REDIS_KEY_PREFIX == "amul:"

\* --------------------------------------------------------------- helpers
RECURSIVE SeqAliases(_)
SeqAliases(s) ==
    IF s = <<>> THEN {} ELSE {Head(s).alias} \cup SeqAliases(Tail(s))

IsAvailable(p) == p.available

IsUnavailable(p) == ~p.available

\* {p.alias for p in products if p.available}
AvailableAliases(products) == SeqAliases(SelectSeq(products, IsAvailable))

\* ------------------------------------------------------------------ Redis
\* The server's keyspace: a function from the keys that exist to
\* [members, ttl]; a set key exists only while it has members.
RedisKey(s) == REDIS_KEY_PREFIX \o s \o ":available"

smembers(db, key) == IF key \in DOMAIN db THEN db[key].members ELSE {}

delete(db, key) == [k \in DOMAIN db \ {key} |-> db[k]]

sadd(db, key, S) ==
    [k \in DOMAIN db \cup {key} |->
        IF k = key
        THEN [members |-> smembers(db, key) \cup S,
              ttl |-> IF key \in DOMAIN db THEN db[key].ttl ELSE FALSE]
        ELSE db[k]]

expire(db, key) ==
    [k \in DOMAIN db |-> IF k = key THEN [db[k] EXCEPT !.ttl = TRUE] ELSE db[k]]

\* -------------------------------------------------------- RedisStateManager
\* __init__: the ping raises when the server is unreachable and the
\* exception is re-raised.
RedisStateManager_init(reachable) == [raised |-> ~reachable]

\* get_previous_state: fault = the SMEMBERS command raises.  The result
\* carries the keyspace the call leaves behind.
\* Variant without the try/except: the command's exception leaves the method.
get_previous_state_unguarded(db, s, fault) ==
    [raised |-> fault, value |-> IF fault THEN {} ELSE smembers(db, RedisKey(s)),
     db |-> db]

\* Variant whose read consumes the key.
get_previous_state_destructive(db, s, fault) ==
    [raised |-> FALSE, value |-> IF fault THEN {} ELSE smembers(db, RedisKey(s)),
     db |-> IF fault THEN db ELSE delete(db, RedisKey(s))]

get_previous_state(db, s, fault) ==
    [raised |-> FALSE,
     value |-> IF fault THEN {} ELSE smembers(db, RedisKey(s)),
     db |-> db]

\* update_state: DELETE, SADD (skipped for an empty set), EXPIRE, in that
\* order.  fault = 0: no command raises; fault = k: command k raises, having
\* taken effect on the server (applied) or not, and the later ones are not
\* issued.
Ran(k, fault, applied) == fault = 0 \/ k < fault \/ (k = fault /\ applied)

\* Variant without the DELETE: an incremental merge.
update_state_merge(db, s, S, fault, applied) ==
    LET key == RedisKey(s)
        d2 == IF Ran(2, fault, applied) /\ S # {} THEN sadd(db, key, S) ELSE db
        d3 == IF Ran(3, fault, applied) THEN expire(d2, key) ELSE d2
    IN  [raised |-> FALSE, ok |-> fault = 0, db |-> d3]

update_state(db, s, S, fault, applied) ==
    LET key == RedisKey(s)
        d1 == IF Ran(1, fault, applied) THEN delete(db, key) ELSE db
        d2 == IF Ran(2, fault, applied) /\ S # {} THEN sadd(d1, key, S) ELSE d1
        d3 == IF Ran(3, fault, applied) THEN expire(d2, key) ELSE d2
    IN  [raised |-> FALSE, ok |-> fault = 0, db |-> d3]

\* newly_available_aliases = current_available - previous_available
\* Variant that ignores the previous snapshot.
NewlyAvailableAliases_nodiff(current, previous) == current

NewlyAvailableAliases(current, previous) == current \ previous

\* [p for p in current_products if p.available and p.alias in newly]
\* Variant that returns every available product, whatever the difference.
NewlyAvailableProducts_all(current_products, newly) ==
    SelectSeq(current_products, IsAvailable)

\* Variant without the test of p.available.
NewlyAvailableProducts_noflag(current_products, newly) ==
    LET Keep(p) == p.alias \in newly
    IN  SelectSeq(current_products, Keep)

NewlyAvailableProducts(current_products, newly) ==
    LET Keep(p) == p.available /\ p.alias \in newly
    IN  SelectSeq(current_products, Keep)

\* --------------------------------------------------------- TelegramNotifier
\* send_notification(products, force, log_to_console); creds = both
\* TELEGRAM_BOT_TOKEN and TELEGRAM_CHANNEL_ID set; http = what requests.post
\* does: "ok", "error" (non-OK response) or "exception".
HttpOutcomes == {"ok", "error", "exception"}

\* Variant without the first test: missing credentials do not turn the
\* console on, and the later test returns False.
send_notification_nocredcheck(products, force, log_to_console, creds, http) ==
    LET to_notify == IF force THEN products ELSE SelectSeq(products, IsAvailable)
    IN  IF products = <<>> \/ to_notify = <<>>
        THEN [raised |-> FALSE, ok |-> TRUE, channel |-> "none", message |-> <<>>]
        ELSE IF log_to_console
        THEN [raised |-> FALSE, ok |-> TRUE, channel |-> "console", message |-> to_notify]
        ELSE IF ~creds
        THEN [raised |-> FALSE, ok |-> FALSE, channel |-> "none", message |-> <<>>]
        ELSE [raised |-> FALSE, ok |-> http = "ok", channel |-> "telegram",
              message |-> to_notify]

\* Variant without the try/except around requests.post.
send_notification_unguarded(products, force, log_to_console, creds, http) ==
    LET console == log_to_console \/ ~creds
        to_notify == IF force THEN products ELSE SelectSeq(products, IsAvailable)
    IN  IF products = <<>> \/ to_notify = <<>>
        THEN [raised |-> FALSE, ok |-> TRUE, channel |-> "none", message |-> <<>>]
        ELSE IF console
        THEN [raised |-> FALSE, ok |-> TRUE, channel |-> "console", message |-> to_notify]
        ELSE [raised |-> http = "exception", ok |-> http = "ok",
              channel |-> "telegram", message |-> to_notify]

send_notification(products, force, log_to_console, creds, http) ==
    LET console == log_to_console \/ ~creds
        to_notify == IF force THEN products ELSE SelectSeq(products, IsAvailable)
    IN  IF products = <<>> \/ to_notify = <<>>
        THEN [raised |-> FALSE, ok |-> TRUE, channel |-> "none", message |-> <<>>]
        ELSE IF console
        THEN [raised |-> FALSE, ok |-> TRUE, channel |-> "console", message |-> to_notify]
        ELSE [raised |-> FALSE, ok |-> http = "ok", channel |-> "telegram",
              message |-> to_notify]

\* The message reached its reader (Telegram accepted it, or it was printed).
Delivered(r) == r.ok /\ r.channel # "none"

NotSent == [raised |-> FALSE, ok |-> TRUE, channel |-> "none", message |-> <<>>]

\* ------------------------------------------------------------- AmulAPIClient
\* get_store_from_pincode returns the empty string for every pincode.
get_store_from_pincode(pincode) == ""

\* store = get_store_from_pincode(PINCODE) if PINCODE else DEFAULT_STORE
StoreOf(pincode) ==
    IF pincode # "" THEN get_store_from_pincode(pincode) ELSE DEFAULT_STORE

\* The alias lists handed to get_product_details_parallel: distinct aliases,
\* which the fan-out treats alike, so one list of each length.
AliasOrder == <<"a", "b", "c", "d">>

AliasLists == {SubSeq(AliasOrder, 1, n) : n \in 0..MaxBatch}

\* What a detail fetch yields: the decoded body of the product's response,
\* or None.
None == "None"

DetailOf(alias) == "detail:" \o alias

\* _get_product_details_with_driver(alias, driver).  outcome = "detail": a
\* matching response with a body that decodes; "none": no matching response,
\* no body, or a body that does not decode (caught); "raise": driver.get or
\* driver.get_log raises (not caught).
FetchOutcomes == {"detail", "none", "raise"}

get_product_details_with_driver(alias, outcome) ==
    [raised |-> outcome = "raise",
     value |-> IF outcome = "detail" THEN DetailOf(alias) ELSE None]

\* Sessions: the pooled ones are numbered from 1 in the order _create_driver
\* made them; the client's own driver is PrimaryDriver.
PrimaryDriver == 0

NoDriver == -1

\* _get_driver_from_pool, under _driver_pool_lock: pop the last idle session,
\* or create one when the idle list is empty.  n = sessions created so far.
\* Variant that hands out the last idle session without removing it.
get_driver_from_pool_peek(pool, n) ==
    IF pool # <<>>
    THEN [driver |-> pool[Len(pool)], pool |-> pool, created |-> n]
    ELSE [driver |-> n + 1, pool |-> pool, created |-> n + 1]

\* Variant that creates a session for every unit of work.
get_driver_from_pool_eager(pool, n) ==
    [driver |-> n + 1, pool |-> pool, created |-> n + 1]

get_driver_from_pool(pool, n) ==
    IF pool # <<>>
    THEN [driver |-> pool[Len(pool)],
          pool |-> SubSeq(pool, 1, Len(pool) - 1),
          created |-> n]
    ELSE [driver |-> n + 1, pool |-> pool, created |-> n + 1]

\* _return_driver_to_pool, under _driver_pool_lock.
return_driver_to_pool(pool, driver) == Append(pool, driver)

\* fetch_single_product after the session is acquired: the fetch, and the
\* finally clause that returns the session whatever the fetch did.
\* Variant that returns the session only when the fetch does not raise.
fetch_single_product_nofinally(alias, driver, pool, outcome) ==
    LET r == get_product_details_with_driver(alias, outcome)
    IN  [raised |-> r.raised, value |-> r.value,
         pool |-> IF r.raised THEN pool ELSE return_driver_to_pool(pool, driver)]

fetch_single_product(alias, driver, pool, outcome) ==
    LET r == get_product_details_with_driver(alias, outcome)
    IN  [raised |-> r.raised, value |-> r.value,
         pool |-> return_driver_to_pool(pool, driver)]

\* results[alias] = result, with the alias the work item returned.
\* Variant that keys the entry by the order of completion.
store_result_by_arrival(res, alias, result) ==
    LET key == AliasOrder[Cardinality(DOMAIN res) + 1]
    IN  [a \in DOMAIN res \cup {key} |-> IF a = key THEN result ELSE res[a]]

store_result(res, alias, result) ==
    [a \in DOMAIN res \cup {alias} |-> IF a = alias THEN result ELSE res[a]]

\* ThreadPoolExecutor(max_workers): submitting n work items starts a thread
\* per item until max_workers threads exist.
\* Variant that starts one thread per work item.
ThreadCount_unbounded(n, mw) == n

ThreadCount(n, mw) == IF n < mw THEN n ELSE mw

\* A future: PENDING, RUNNING, or finished with a result or an exception.
FuturePending == [state |-> "PENDING", value |-> None]

FutureRunning == [state |-> "RUNNING", value |-> None]

FutureResult(v) == [state |-> "RESULT", value |-> v]

FutureException == [state |-> "EXCEPTION", value |-> None]

FutureDone(f) == f.state \in {"RESULT", "EXCEPTION"}

\* __del__: self.driver.quit(), then quit() on every idle session, each in
\* its own try; an exception of the first leaves the outer try at once.
\* failing = the sessions whose quit() raises.
del_(pool, failing) ==
    [raised |-> FALSE,
     asked |-> IF PrimaryDriver \in failing
               THEN {PrimaryDriver}
               ELSE {PrimaryDriver} \cup {pool[i] : i \in 1..Len(pool)}]

\* -------------------------------------------------- ProductAvailabilityChecker
\* aliases = [p["alias"] for p in raw_products if p.get("alias")]
HasAlias(e) == e.alias # NoAlias

CatalogAliases(raw) ==
    LET E(i) == SelectSeq(raw, HasAlias)[i]
    IN  [i \in 1..Len(SelectSeq(raw, HasAlias)) |-> E(i).alias]

\* One Product per raw entry with an alias; available = entry["available"] > 0.
BuildProducts(raw, s) ==
    LET kept == SelectSeq(raw, HasAlias)
    IN  [i \in 1..Len(kept) |->
            [alias |-> kept[i].alias, available |-> kept[i].available > 0,
             store |-> s]]

\* src/main.py's _create_product_objects: its loop has no test of the alias,
\* so every raw entry gives a Product, with alias "" when it has none.
BuildProducts_script(raw, s) ==
    [i \in 1..Len(raw) |->
        [alias |-> raw[i].alias, available |-> raw[i].available > 0,
         store |-> s]]

\* should_force_notify = force_notify if force_notify is not None
\*                       else Config.FORCE_NOTIFY
ForceNotifyArgs == {"None", "True", "False"}

\* str.lower on the values of EnvForceNotify.
lower(t) == CASE t = "True" -> "true" [] t = "False" -> "false" [] OTHER -> t

\* Config.FORCE_NOTIFY = os.getenv("FORCE_NOTIFY", "False").lower() == "true"
Config_FORCE_NOTIFY(env) ==
    lower(IF env = "unset" THEN "False" ELSE env) = "true"

\* click's is_flag option: True when the flag is given, False when it is not.
click_flag(given) == IF given THEN "True" ELSE "False"

ShouldForceNotify(force_notify, FORCE_NOTIFY) ==
    IF force_notify # "None" THEN force_notify = "True" ELSE FORCE_NOTIFY

\* ---------------------------------------------------------------- healthcheck
\* str.strip on the texts of the timestamp file.
strip(t) == IF t = "1000\n" THEN "1000" ELSE t

\* float(text) and int(text): the number, or ValueError.
float_text(t) ==
    CASE t = "1000" -> [raised |-> FALSE, value |-> 1000]
      [] t = "2000" -> [raised |-> FALSE, value |-> 2000]
      [] OTHER -> [raised |-> TRUE, value |-> 0]

int_text(t) ==
    CASE t = "900" -> [raised |-> FALSE, value |-> 900]
      [] t = "60" -> [raised |-> FALSE, value |-> 60]
      [] OTHER -> [raised |-> TRUE, value |-> 0]

\* check_redis_connection: True when the settings parse and the ping is
\* answered; every exception gives False.
check_redis_connection(ping) == ping = "pong"

\* check_last_fetch_time: True without a timestamp file; otherwise the text
\* is read and parsed, then HEALTHCHECK_INTERVAL (default "900"), and the
\* result is whether the age is not above it; every exception gives False.
\* Variant that fails at the maximum age itself.
check_last_fetch_time_ge(file, now, interval) ==
    IF file = "absent" THEN TRUE
    ELSE IF file = "unreadable" THEN FALSE
    ELSE LET last_fetch_time == float_text(strip(file))
             max_age == int_text(IF interval = "unset" THEN "900" ELSE interval)
         IN  IF last_fetch_time.raised \/ max_age.raised THEN FALSE
             ELSE ~(now - last_fetch_time.value >= max_age.value)

check_last_fetch_time(file, now, interval) ==
    IF file = "absent" THEN TRUE
    ELSE IF file = "unreadable" THEN FALSE
    ELSE LET last_fetch_time == float_text(strip(file))
             max_age == int_text(IF interval = "unset" THEN "900" ELSE interval)
         IN  IF last_fetch_time.raised \/ max_age.raised THEN FALSE
             ELSE ~(now - last_fetch_time.value > max_age.value)

\* main: sys.exit(0) when all checks passed, sys.exit(1) otherwise.
exit_status(redis_ok, fetch_time_ok) ==
    IF redis_ok /\ fetch_time_ok THEN 0 ELSE 1

\* ------------------------------------------------------------ entity building
\* A JSON value under a key of a raw entry or a detail record: the key is
\* missing, or holds null, a number or a string.
Missing == [type |-> "missing", num |-> 0, text |-> ""]

Null == [type |-> "null", num |-> 0, text |-> ""]

Num(n) == [type |-> "number", num |-> n, text |-> ""]

Str(t) == [type |-> "string", num |-> 0, text |-> t]

\* dict.get(key, default)
Get(v, default) == IF v.type = "missing" THEN default ELSE v

\* The strings int() and float() accept, and what they denote.
Numerals == {"7"}

ParseNumeral(t) == CASE t = "7" -> 7

\* int(x) and float(x): a number converts, a numeral string is parsed, any
\* other string raises ValueError and None raises TypeError.
int(v) ==
    CASE v.type = "number" -> [raised |-> FALSE, value |-> v.num]
      [] v.type = "string" /\ v.text \in Numerals ->
            [raised |-> FALSE, value |-> ParseNumeral(v.text)]
      [] OTHER -> [raised |-> TRUE, value |-> 0]

float(v) == int(v)

\* str(x)
str(v) ==
    CASE v.type = "string" -> v.text
      [] v.type = "null" -> "None"
      [] OTHER -> ""

\* The inputs of one entity build.
IntValues == {Missing, Null, Num(7), Str("7"), Str("abc")}

FewIntValues == {Missing, Num(7), Str("abc")}

PriceValues == {Missing, Num(30), Str("abc")}

AvailableValues == {Missing, Num(-1), Num(0), Num(1), Null}

NoMetafields == [type |-> "missing", product_type |-> Missing, uom |-> Missing]

Metafields ==
    {NoMetafields,
     [type |-> "null", product_type |-> Missing, uom |-> Missing]}
    \cup [type : {"dict"}, product_type : {Missing, Null, Str("New")},
          uom : {Missing, Str("g")}]

\* detailed_info: None, the empty dict, or a dict with some of the keys.
NoDetail ==
    [kind |-> "None", inventory_quantity |-> Missing, weight |-> Missing,
     inventory_low_stock_quantity |-> Missing, total_order_count |-> Missing,
     compare_price |-> Missing, metafields |-> NoMetafields]

EmptyDetail == [NoDetail EXCEPT !.kind = "empty"]

Details ==
    {NoDetail, EmptyDetail}
    \cup [kind : {"dict"}, inventory_quantity : IntValues,
          weight : FewIntValues, inventory_low_stock_quantity : FewIntValues,
          total_order_count : FewIntValues, compare_price : PriceValues,
          metafields : Metafields]

Entries == [alias : {"a"}, available : AvailableValues, price : PriceValues]

\* _extract_detailed_info's safe defaults.
DefaultInfo ==
    [inventory_quantity |-> 0, weight |-> 0,
     inventory_low_stock_quantity |-> 0, total_order_count |-> 0,
     compare_price |-> 0, product_type |-> "", uom |-> ""]

\* _extract_detailed_info past its first test: int()/float() of each numeric
\* key (0 when missing) and str() of the two metafields; metafields = null
\* has no get().
convert_detailed_info(d) ==
    LET iq == int(Get(d.inventory_quantity, Num(0)))
        wt == int(Get(d.weight, Num(0)))
        ls == int(Get(d.inventory_low_stock_quantity, Num(0)))
        oc == int(Get(d.total_order_count, Num(0)))
        cp == float(Get(d.compare_price, Num(0)))
        mf == d.metafields
    IN  IF \/ iq.raised \/ wt.raised \/ ls.raised \/ oc.raised \/ cp.raised
           \/ mf.type = "null"
        THEN [raised |-> TRUE, value |-> DefaultInfo]
        ELSE [raised |-> FALSE,
              value |->
                [inventory_quantity |-> iq.value, weight |-> wt.value,
                 inventory_low_stock_quantity |-> ls.value,
                 total_order_count |-> oc.value,
                 compare_price |-> cp.value,
                 product_type |-> str(Get(mf.product_type, Str(""))),
                 uom |-> str(Get(mf.uom, Str("")))]]

\* _extract_detailed_info(detailed_info): the defaults for None and for the
\* empty dict ("if not detailed_info"), the conversions otherwise.
\* Variant without the first test: None has no get().
extract_detailed_info_unguarded(d) ==
    IF d.kind = "None"
    THEN [raised |-> TRUE, value |-> DefaultInfo]
    ELSE convert_detailed_info(d)

extract_detailed_info(d) ==
    IF d.kind \in {"None", "empty"}
    THEN [raised |-> FALSE, value |-> DefaultInfo]
    ELSE convert_detailed_info(d)

\* available = product.get("available", 0) > 0: the comparison raises
\* TypeError for a value that is no number.
\* Variant that counts zero as available.
available_flag_ge(v) ==
    LET a == Get(v, Num(0))
    IN  [raised |-> a.type # "number", value |-> a.type = "number" /\ a.num >= 0]

available_flag(v) ==
    LET a == Get(v, Num(0))
    IN  [raised |-> a.type # "number", value |-> a.type = "number" /\ a.num > 0]

NoProduct ==
    [alias |-> "", available |-> FALSE, store |-> "", price |-> 0,
     inventory_quantity |-> 0, weight |-> 0,
     inventory_low_stock_quantity |-> 0, total_order_count |-> 0,
     compare_price |-> 0, product_type |-> "", uom |-> ""]

\* Product(alias=..., available=..., store=..., price=float(...), **info)
Product(entry, s, i) ==
    LET av == available_flag(entry.available)
        pr == float(Get(entry.price, Num(0)))
    IN  [raised |-> av.raised \/ pr.raised,
         value |->
           [alias |-> entry.alias, available |-> av.value, store |-> s,
            price |-> pr.value,
            inventory_quantity |-> i.inventory_quantity, weight |-> i.weight,
            inventory_low_stock_quantity |-> i.inventory_low_stock_quantity,
            total_order_count |-> i.total_order_count,
            compare_price |-> i.compare_price,
            product_type |-> i.product_type, uom |-> i.uom]]

\* ------------------------------------------------------------------- state
VARIABLES
    pc,                       \* where the run is
    exc,                      \* the exception that ended the run, or "none"
    PINCODE,                  \* Config.PINCODE of the process
    use_state_management,     \* checker.use_state_management
    store,                    \* check_availability: store
    raw_products,             \* check_availability: raw_products
    products,                 \* _create_product_objects' result
    available_products,       \* run: available_products
    unavailable_products,     \* run: unavailable_products
    all_products,             \* run: all_products
    should_force_notify,      \* run: should_force_notify
    current_available,        \* get_newly_available_products: current_available
    previous_available,       \* get_newly_available_products: previous_available
    newly_available_aliases,  \* get_newly_available_products: newly_available_aliases
    newly_available,          \* _handle_notifications: newly_available
    read_fault,               \* the SMEMBERS of this run raised
    update_ok,                \* what update_state returned
    redis,                    \* the Redis keyspace
    notified,                 \* the product list handed to send_notification
    sent,                     \* what send_notification did with it
    dispatched,               \* detail fetches submitted to the executor
    snap_reads,               \* get_previous_state calls of this run
    snap_writes,              \* update_state calls of this run
    notifier_calls,           \* send_notification calls of this run
    expired,                  \* a key expired since the run last used Redis
    redis_before,             \* the keyspace when the run started
    unreported,               \* stored aliases no delivered message has named
    crash_obs,                \* what a run that stopped between read and write saw
    last_write,               \* the last completed snapshot write, if still in place
    repeat_call               \* this diff repeats last_write's

\* The state of AmulAPIClient's detail fan-out.
VARIABLES
    fan_pc,                   \* where the caller of the fan-out is
    aliases,                  \* get_product_details_parallel: aliases
    max_workers,              \* get_product_details_parallel: max_workers
    work_queue,               \* the executor's queue: indices into aliases
    futures,                  \* future_to_alias: the future of each index
    yielded,                  \* the futures as_completed has yielded
    results,                  \* get_product_details_parallel: results
    threads,                  \* worker threads the executor has started
    workers,                  \* each thread: waiting or fetching, and with what
    driver_pool,              \* self._driver_pool: the idle sessions
    created,                  \* pooled sessions _create_driver has made
    quit_asked,               \* the sessions quit() was called on
    peak_workers,             \* the largest max_workers requested so far
    full,                     \* the budgets some batch used in full
    batch_start               \* what held when the current batch started

fan_vars ==
    <<fan_pc, aliases, max_workers, work_queue, futures, yielded, results,
      threads, workers, driver_pool, created, quit_asked, peak_workers, full,
      batch_start>>

\* The state of one entity build.
VARIABLES
    build_pc,                 \* where _create_product_objects' loop body is
    product,                  \* the raw catalog entry
    detailed_info,            \* detailed_info_map.get(alias)
    info,                     \* _extract_detailed_info's result
    product_obj               \* the Product built

build_vars == <<build_pc, product, detailed_info, info, product_obj>>

\* The arguments and the configuration of one send_notification call.
VARIABLES notify_args

\* The command line and the environment of one invocation of cli.main.
VARIABLES cli_args

\* One execution of the health check script: its environment, where it is,
\* and what its checks returned.
VARIABLES health

call_vars == <<notify_args, cli_args, health>>

aux_vars == <<fan_vars, build_vars, call_vars>>

checker_vars ==
    <<pc, exc, PINCODE, use_state_management, store, raw_products, products,
      available_products, unavailable_products, all_products,
      should_force_notify, current_available, previous_available,
      newly_available_aliases, newly_available, read_fault, update_ok, redis,
      notified, sent, dispatched, snap_reads, snap_writes, notifier_calls,
      expired, redis_before, unreported, crash_obs, last_write, repeat_call>>

vars == <<checker_vars, aux_vars>>

\* The variables a run works on, other than pc and exc.
catalog_vars == <<raw_products, products, available_products,
                  unavailable_products, all_products, dispatched>>

diff_vars == <<current_available, previous_available, newly_available_aliases,
               newly_available, read_fault, update_ok, repeat_call>>

notify_vars == <<notified, sent, notifier_calls>>

store_vars == <<redis, snap_reads, snap_writes, expired, unreported, last_write>>

config_vars == <<PINCODE, use_state_management, store, redis_before>>

NoCrashObs ==
    [valid |-> FALSE, store |-> "", B |-> {}, snap |-> {}, delta |-> {}]

NoWrite == [valid |-> FALSE, store |-> "", B |-> {}, pincode |-> ""]

Running == pc \notin {"idle", "done", "failed", "crashed"}

\* The state of a process that has not started a run.
RunInit ==
    /\ pc = "idle"
    /\ exc = "none"
    /\ PINCODE = NoPincode
    /\ use_state_management = FALSE
    /\ store = ""
    /\ raw_products = <<>>
    /\ products = <<>>
    /\ available_products = <<>>
    /\ unavailable_products = <<>>
    /\ all_products = <<>>
    /\ should_force_notify = FALSE
    /\ current_available = {}
    /\ previous_available = {}
    /\ newly_available_aliases = {}
    /\ newly_available = <<>>
    /\ read_fault = FALSE
    /\ update_ok = FALSE
    /\ redis = <<>>
    /\ notified = <<>>
    /\ sent = NotSent
    /\ dispatched = 0
    /\ snap_reads = 0
    /\ snap_writes = 0
    /\ notifier_calls = 0
    /\ expired = FALSE
    /\ redis_before = <<>>
    /\ unreported = {}
    /\ crash_obs = NoCrashObs
    /\ last_write = NoWrite
    /\ repeat_call = FALSE

\* AmulAPIClient.__init__: the primary driver, an empty idle list, no batch.
WorkerWaiting == [pc |-> "wait", task |-> 0, driver |-> NoDriver]

NoResults == [a \in {} |-> None]

NoBatch == [reached |-> FALSE, created |-> 0]

ClientInit ==
    /\ fan_pc = "ready"
    /\ aliases = <<>>
    /\ max_workers = 0
    /\ work_queue = <<>>
    /\ futures = <<>>
    /\ yielded = {}
    /\ results = NoResults
    /\ threads = 0
    /\ workers = [w \in 1..MaxWorkers |-> WorkerWaiting]
    /\ driver_pool = <<>>
    /\ created = 0
    /\ quit_asked = {}
    /\ peak_workers = 0
    /\ full = {}
    /\ batch_start = NoBatch

\* No entity build under way.
NoEntry == [alias |-> "", available |-> Missing, price |-> Missing]

BuildIdle ==
    /\ build_pc = "idle"
    /\ product = NoEntry
    /\ detailed_info = NoDetail
    /\ info = DefaultInfo
    /\ product_obj = NoProduct

\* One pass of _create_product_objects' loop body is about to run on a raw
\* entry and the detail fetched for it.
BuildInit ==
    /\ build_pc = "extract"
    /\ product \in Entries
    /\ detailed_info \in Details
    /\ info = DefaultInfo
    /\ product_obj = NoProduct

\* The product lists send_notification is called with.
NotifyProducts ==
    UNION {[1..n -> [alias : {"a", "b"}, available : BOOLEAN, store : {""}]]
             : n \in 0..MaxCatalog}

\* No send_notification call under study.
NoNotifyArgs ==
    [valid |-> FALSE, products |-> <<>>, force |-> FALSE,
     log_to_console |-> FALSE, token |-> FALSE, channel |-> FALSE,
     http |-> "ok"]

\* A send_notification call: its arguments, whether TELEGRAM_BOT_TOKEN and
\* TELEGRAM_CHANNEL_ID are set, and what requests.post would do.
NotifyArgs ==
    [valid : {TRUE}, products : NotifyProducts, force : BOOLEAN,
     log_to_console : BOOLEAN, token : BOOLEAN, channel : BOOLEAN,
     http : HttpOutcomes]

\* cli.main's --force flag and the FORCE_NOTIFY environment variable.
EnvForceNotify == {"unset", "true", "True", "false", "1"}

NoCliArgs == [valid |-> FALSE, force |-> FALSE, FORCE_NOTIFY |-> "unset"]

CliArgs == [valid : {TRUE}, force : BOOLEAN, FORCE_NOTIFY : EnvForceNotify]

\* No health check under study.
NoHealth ==
    [pc |-> "none", ping |-> "error", file |-> "absent", now |-> 0,
     interval |-> "unset", redis_ok |-> FALSE, fetch_time_ok |-> FALSE,
     exit_code |-> -1]

\* What the health check finds: whether Redis answers the ping (or the Redis
\* settings do not even parse), the timestamp file (absent, present but not
\* readable, or its text), the clock, and HEALTHCHECK_INTERVAL.
FileStates == {"absent", "unreadable", "1000", "1000\n", "2000", "", "abc"}

HealthRuns ==
    [pc : {"start"},
     ping : {"pong", "error", "bad_env"},
     file : FileStates,
     now : {1000, 1060, 1061, 1900, 1901},
     interval : {"unset", "60", "abc"},
     redis_ok : {FALSE}, fetch_time_ok : {FALSE}, exit_code : {-1}]

\* No call under study.
CallsIdle ==
    /\ notify_args = NoNotifyArgs
    /\ cli_args = NoCliArgs
    /\ health = NoHealth

Init == RunInit /\ ClientInit /\ BuildIdle /\ CallsIdle

\* ----------------------------------------------------------------- actions
\* A new process starts with none of the previous run's values.
ResetLocals ==
    /\ store' = ""
    /\ raw_products' = <<>>
    /\ products' = <<>>
    /\ available_products' = <<>>
    /\ unavailable_products' = <<>>
    /\ all_products' = <<>>
    /\ should_force_notify' = FALSE
    /\ current_available' = {}
    /\ previous_available' = {}
    /\ newly_available_aliases' = {}
    /\ newly_available' = <<>>
    /\ read_fault' = FALSE
    /\ update_ok' = FALSE
    /\ repeat_call' = FALSE
    /\ notified' = <<>>
    /\ sent' = NotSent
    /\ dispatched' = 0
    /\ snap_reads' = 0
    /\ snap_writes' = 0
    /\ notifier_calls' = 0

\* cli.main: a new process; checker = ProductAvailabilityChecker().  The
\* RedisStateManager constructor raises when Redis is unreachable and the
\* checker's constructor absorbs it.
\* Variant whose constructor lets the Redis exception out.
ProductAvailabilityChecker_init_raising(reachable) ==
    [raised |-> RedisStateManager_init(reachable).raised,
     use_state_management |-> TRUE]

ProductAvailabilityChecker_init(reachable) ==
    [raised |-> FALSE,
     use_state_management |-> ~RedisStateManager_init(reachable).raised]

CheckerInitFrom(pincodes) ==
    /\ pc \in {"idle", "done", "failed", "crashed"}
    /\ \E pincode \in pincodes, reachable \in BOOLEAN :
        LET c == ProductAvailabilityChecker_init(reachable)
        IN  /\ PINCODE' = pincode
            /\ use_state_management' = c.use_state_management
            /\ pc' = IF c.raised THEN "failed" ELSE "check_availability"
            /\ exc' = IF c.raised THEN "ConnectionError" ELSE "none"
    /\ ResetLocals
    /\ expired' = FALSE
    /\ redis_before' = redis
    /\ UNCHANGED <<redis, unreported, crash_obs, last_write>>
    /\ UNCHANGED aux_vars

CheckerInit == CheckerInitFrom(Pincodes)

\* check_availability: the PINCODE test and the store it selects.
CheckPincode ==
    /\ pc = "check_availability"
    /\ IF PINCODE = NoPincode
       THEN /\ pc' = "failed"
            /\ exc' = "ValueError_PINCODE"
            /\ UNCHANGED store
       ELSE /\ pc' = "set_store_preferences"
            /\ store' = StoreOf(PINCODE)
            /\ UNCHANGED exc
    /\ UNCHANGED <<PINCODE, use_state_management, redis_before, catalog_vars,
                   should_force_notify, diff_vars, notify_vars, store_vars,
                   crash_obs>>
    /\ UNCHANGED aux_vars

\* set_store_preferences: every WebDriverWait may time out.
SetStorePreferences ==
    /\ pc = "set_store_preferences"
    /\ \E timed_out \in BOOLEAN :
        /\ pc' = IF timed_out THEN "failed" ELSE "get_products"
        /\ exc' = IF timed_out THEN "TimeoutException" ELSE "none"
    /\ UNCHANGED <<config_vars, catalog_vars, should_force_notify, diff_vars,
                   notify_vars, store_vars, crash_obs>>
    /\ UNCHANGED aux_vars

\* get_products: the catalog found in the captured traffic, the empty list
\* when no response matches, or the exception of a failed page load or of
\* json.loads on a malformed body (neither is caught).
GetProductsErrors == {"WebDriverException", "JSONDecodeError"}

\* A run over another available set than the stopped run's is not its repeat.
ObsAfterCatalog(obs, raw, s) ==
    IF obs.valid /\ AvailableAliases(BuildProducts(raw, s)) # obs.B
    THEN NoCrashObs
    ELSE obs

GetProducts ==
    /\ pc = "get_products"
    /\ \/ \E raw \in Catalogs :
            /\ raw_products' = raw
            /\ pc' = "check_catalog"
            /\ crash_obs' = ObsAfterCatalog(crash_obs, raw, store)
            /\ UNCHANGED exc
       \/ \E e \in GetProductsErrors :
            /\ pc' = "failed"
            /\ exc' = e
            /\ UNCHANGED <<raw_products, crash_obs>>
    /\ UNCHANGED <<config_vars, products, available_products,
                   unavailable_products, all_products, dispatched,
                   should_force_notify, diff_vars, notify_vars, store_vars>>
    /\ UNCHANGED aux_vars

\* check_availability: if not raw_products: raise ValueError
\* Variant that treats an empty catalog as a zero-result success.
CheckCatalog_lenient ==
    /\ pc = "check_catalog"
    /\ pc' = "create_product_objects"
    /\ UNCHANGED <<exc, config_vars, catalog_vars, should_force_notify,
                   diff_vars, notify_vars, store_vars, crash_obs>>
    /\ UNCHANGED aux_vars

CheckCatalog ==
    /\ pc = "check_catalog"
    /\ IF raw_products = <<>>
       THEN pc' = "failed" /\ exc' = "ValueError_NoProducts"
       ELSE pc' = "create_product_objects" /\ UNCHANGED exc
    /\ UNCHANGED <<config_vars, catalog_vars, should_force_notify, diff_vars,
                   notify_vars, store_vars, crash_obs>>
    /\ UNCHANGED aux_vars

\* _create_product_objects: one detail fetch is submitted per alias and the
\* call waits for all of them; future.result() re-raises what a worker
\* raised, and int()/float() raise on a malformed field.  An exception
\* unwinds check_availability and its raw_products with it.
CreateErrors == {"WebDriverException", "ValueError_Coercion"}

CreateProductObjects ==
    /\ pc = "create_product_objects"
    /\ dispatched' = Len(CatalogAliases(raw_products))
    /\ \/ /\ products' = BuildProducts(raw_products, store)
          /\ pc' = "partition"
          /\ UNCHANGED exc
          /\ UNCHANGED raw_products
       \/ \E e \in CreateErrors :
          /\ pc' = "failed"
          /\ exc' = e
          /\ raw_products' = <<>>
          /\ UNCHANGED products
    /\ UNCHANGED <<config_vars, available_products,
                   unavailable_products, all_products, should_force_notify,
                   diff_vars, notify_vars, store_vars, crash_obs>>
    /\ UNCHANGED aux_vars

\* check_availability's partition and return (its raw_products and products
\* end with it), then run's all_products and should_force_notify.
PartitionProductsWith(force_notify, FORCE_NOTIFY) ==
    /\ pc = "partition"
    /\ available_products' = SelectSeq(products, IsAvailable)
    /\ unavailable_products' = SelectSeq(products, IsUnavailable)
    /\ all_products' =
          SelectSeq(products, IsAvailable) \o SelectSeq(products, IsUnavailable)
    /\ should_force_notify' = ShouldForceNotify(force_notify, FORCE_NOTIFY)
    /\ raw_products' = <<>>
    /\ products' = <<>>
    /\ pc' = "handle_notifications"
    /\ UNCHANGED <<exc, config_vars, dispatched, diff_vars, notify_vars,
                   store_vars, crash_obs>>
    /\ UNCHANGED aux_vars

PartitionProducts ==
    \E force_notify \in ForceNotifyArgs, FORCE_NOTIFY \in BOOLEAN :
        PartitionProductsWith(force_notify, FORCE_NOTIFY)

\* _handle_notifications: which of its three branches a run takes.
\* Variant that tests state management before the force flag.
Branch_state_first(force, use_state) ==
    IF use_state THEN "diff" ELSE IF force THEN "force" ELSE "basic"

Branch(force, use_state) ==
    IF force THEN "force" ELSE IF use_state THEN "diff" ELSE "basic"

\* What a delivered message takes off the unreported aliases.
AfterSend(r, u) == IF Delivered(r) THEN u \ SeqAliases(r.message) ELSE u

\* if should_force_notify: send_notification(all_products, force=True); return
NotifyForce ==
    /\ pc = "handle_notifications"
    /\ Branch(should_force_notify, use_state_management) = "force"
    /\ \E dry_run \in BOOLEAN, creds \in BOOLEAN, http \in HttpOutcomes :
        LET r == send_notification(all_products, TRUE, dry_run, creds, http)
        IN  /\ sent' = r
            /\ unreported' = AfterSend(r, unreported)
            /\ pc' = IF r.raised THEN "failed" ELSE "done"
            /\ exc' = IF r.raised THEN "RequestException" ELSE exc
    /\ notified' = all_products
    /\ notifier_calls' = notifier_calls + 1
    /\ UNCHANGED <<config_vars, catalog_vars, should_force_notify,
                   diff_vars, redis, snap_reads, snap_writes, expired,
                   last_write, crash_obs>>
    /\ UNCHANGED aux_vars

\* get_newly_available_products up to the set difference: an empty product
\* list returns [] at once; otherwise the snapshot of the first product's
\* store is read.
GetPreviousState ==
    /\ pc = "handle_notifications"
    /\ Branch(should_force_notify, use_state_management) = "diff"
    /\ \/ /\ all_products = <<>>
          /\ newly_available' = <<>>
          /\ pc' = "notify_new"
          /\ UNCHANGED <<exc, current_available, previous_available,
                         newly_available_aliases, read_fault, repeat_call,
                         redis, snap_reads, expired>>
       \/ /\ all_products # <<>>
          /\ \E fault \in BOOLEAN :
              LET s == all_products[1].store
                  cur == AvailableAliases(all_products)
                  r == get_previous_state(redis, s, fault)
              IN  /\ current_available' = cur
                  /\ previous_available' = r.value
                  /\ newly_available_aliases' = NewlyAvailableAliases(cur, r.value)
                  /\ redis' = r.db
                  /\ read_fault' = fault
                  /\ repeat_call' = (last_write.valid /\ last_write.store = s
                                     /\ last_write.B = cur)
                  /\ pc' = IF r.raised THEN "failed" ELSE "update_state"
                  /\ exc' = IF r.raised THEN "RedisError_read" ELSE "none"
          /\ snap_reads' = snap_reads + 1
          /\ expired' = FALSE
          /\ UNCHANGED newly_available
    /\ UNCHANGED <<config_vars, catalog_vars, should_force_notify, update_ok,
                   notify_vars, snap_writes, unreported, last_write, crash_obs>>
    /\ UNCHANGED aux_vars

\* The rest of get_newly_available_products: update_state(store,
\* current_available), then the products of the difference.
UpdateState ==
    /\ pc = "update_state"
    /\ \E fault \in 0..3, applied \in BOOLEAN :
        /\ fault = 0 => ~applied
        /\ fault = 2 => current_available # {}
        /\ LET s == all_products[1].store
               r == update_state(redis, s, current_available, fault, applied)
               old == smembers(redis, RedisKey(s))
               new == smembers(r.db, RedisKey(s))
           IN  /\ redis' = r.db
               /\ update_ok' = r.ok
               /\ unreported' = (unreported \cap new) \cup (new \ old)
               /\ last_write' = IF r.ok
                                THEN [valid |-> TRUE, store |-> s,
                                      B |-> current_available,
                                      pincode |-> PINCODE]
                                ELSE NoWrite
               /\ pc' = IF r.raised THEN "failed" ELSE "notify_new"
               /\ exc' = IF r.raised THEN "RedisError_write" ELSE "none"
    /\ newly_available' =
          NewlyAvailableProducts(all_products, newly_available_aliases)
    /\ snap_writes' = snap_writes + 1
    /\ expired' = FALSE
    /\ crash_obs' = NoCrashObs
    /\ UNCHANGED <<config_vars, catalog_vars, should_force_notify,
                   current_available, previous_available,
                   newly_available_aliases, read_fault, repeat_call,
                   notify_vars, snap_reads>>
    /\ UNCHANGED aux_vars

\* if newly_available: send_notification(newly_available); return
NotifyNewlyAvailable ==
    /\ pc = "notify_new"
    /\ \/ /\ newly_available # <<>>
          /\ \E dry_run \in BOOLEAN, creds \in BOOLEAN, http \in HttpOutcomes :
              LET r == send_notification(newly_available, FALSE, dry_run,
                                         creds, http)
              IN  /\ sent' = r
                  /\ unreported' = AfterSend(r, unreported)
                  /\ pc' = IF r.raised THEN "failed" ELSE "done"
                  /\ exc' = IF r.raised THEN "RequestException" ELSE exc
          /\ notified' = newly_available
          /\ notifier_calls' = notifier_calls + 1
       \/ /\ newly_available = <<>>
          /\ pc' = "done"
          /\ UNCHANGED <<exc, notify_vars, unreported>>
    /\ UNCHANGED <<config_vars, catalog_vars, should_force_notify,
                   diff_vars, redis, snap_reads, snap_writes, expired,
                   last_write, crash_obs>>
    /\ UNCHANGED aux_vars

\* Without state management: send_notification(available_products) when
\* there is one.
NotifyBasic ==
    /\ pc = "handle_notifications"
    /\ Branch(should_force_notify, use_state_management) = "basic"
    /\ \/ /\ available_products # <<>>
          /\ \E dry_run \in BOOLEAN, creds \in BOOLEAN, http \in HttpOutcomes :
              LET r == send_notification(available_products, FALSE, dry_run,
                                         creds, http)
              IN  /\ sent' = r
                  /\ unreported' = AfterSend(r, unreported)
                  /\ pc' = IF r.raised THEN "failed" ELSE "done"
                  /\ exc' = IF r.raised THEN "RequestException" ELSE exc
          /\ notified' = available_products
          /\ notifier_calls' = notifier_calls + 1
       \/ /\ available_products = <<>>
          /\ pc' = "done"
          /\ UNCHANGED <<exc, notify_vars, unreported>>
    /\ UNCHANGED <<config_vars, catalog_vars, should_force_notify,
                   diff_vars, redis, snap_reads, snap_writes, expired,
                   last_write, crash_obs>>
    /\ UNCHANGED aux_vars

\* The process stops where it is: its values are gone, Redis keeps what it
\* holds.
Crash ==
    /\ Running
    /\ pc' = "crashed"
    /\ ResetLocals
    /\ crash_obs' =
          IF pc = "update_state" /\ ~read_fault /\ ~expired
          THEN [valid |-> TRUE, store |-> all_products[1].store,
                B |-> current_available, snap |-> previous_available,
                delta |-> newly_available_aliases]
          ELSE crash_obs
    /\ UNCHANGED <<exc, PINCODE, use_state_management, redis_before, redis,
                   expired, unreported, last_write>>
    /\ UNCHANGED aux_vars

\* Redis drops a key whose time-to-live has run out.
Expire ==
    /\ \E key \in DOMAIN redis :
        /\ redis[key].ttl
        /\ redis' = delete(redis, key)
        /\ unreported' = unreported \ redis[key].members
    /\ expired' = TRUE
    /\ last_write' = NoWrite
    /\ crash_obs' = NoCrashObs
    /\ UNCHANGED <<pc, exc, config_vars, catalog_vars, should_force_notify,
                   diff_vars, notify_vars, snap_reads, snap_writes>>
    /\ UNCHANGED aux_vars

Next ==
    \/ CheckerInit
    \/ CheckPincode
    \/ SetStorePreferences
    \/ GetProducts
    \/ CheckCatalog
    \/ CreateProductObjects
    \/ PartitionProducts
    \/ NotifyForce
    \/ GetPreviousState
    \/ UpdateState
    \/ NotifyNewlyAvailable
    \/ NotifyBasic
    \/ Crash
    \/ Expire

Spec == Init /\ [][Next]_vars

TypeOK ==
    /\ pc \in {"idle", "check_availability", "set_store_preferences",
               "get_products", "check_catalog", "create_product_objects",
               "partition", "handle_notifications", "update_state",
               "notify_new", "done", "failed", "crashed"}
    /\ unreported \subseteq smembers(redis, RedisKey(""))
    /\ snap_reads \in 0..1 /\ snap_writes \in 0..1 /\ notifier_calls \in 0..1

\* ------------------------------------------------------- the detail fan-out
\* The threads that hold a session, and those that are running a work item.
Held == {w \in 1..MaxWorkers : workers[w].driver # NoDriver}

InFlight == {w \in 1..MaxWorkers : workers[w].pc # "wait"}

\* get_product_details_parallel up to the as_completed loop: a new executor,
\* one work item submitted per alias.
GetProductDetailsParallel ==
    /\ fan_pc \in {"ready", "returned", "raised"}
    /\ \E as \in AliasLists, mw \in 1..MaxWorkers :
        /\ aliases' = as
        /\ max_workers' = mw
        /\ work_queue' = [i \in 1..Len(as) |-> i]
        /\ futures' = [i \in 1..Len(as) |-> FuturePending]
        /\ threads' = ThreadCount(Len(as), mw)
        /\ peak_workers' = IF mw > peak_workers THEN mw ELSE peak_workers
        /\ batch_start' = [reached |-> mw \in full, created |-> created]
    /\ yielded' = {}
    /\ results' = NoResults
    /\ fan_pc' = "as_completed"
    /\ UNCHANGED <<workers, driver_pool, created, quit_asked, full>>
    /\ UNCHANGED <<checker_vars, build_vars, call_vars>>

\* A thread takes the next work item and fetch_single_product acquires its
\* session; _create_driver may raise, which ends the work item.  The waiting
\* threads are interchangeable: the lowest-numbered one takes the item.
StartFetch(w) ==
    /\ w <= threads
    /\ workers[w].pc = "wait"
    /\ \A v \in 1..(w - 1) : workers[v].pc # "wait"
    /\ work_queue # <<>>
    /\ \E create_fails \in (IF driver_pool = <<>> THEN BOOLEAN ELSE {FALSE}) :
        LET task == Head(work_queue)
            g == get_driver_from_pool(driver_pool, created)
        IN  IF create_fails
            THEN /\ futures' = [futures EXCEPT ![task] = FutureException]
                 /\ UNCHANGED <<workers, driver_pool, created, full>>
            ELSE /\ futures' = [futures EXCEPT ![task] = FutureRunning]
                 /\ workers' = [workers EXCEPT ![w] =
                        [pc |-> "fetch", task |-> task, driver |-> g.driver]]
                 /\ driver_pool' = g.pool
                 /\ created' = g.created
                 /\ full' = IF Cardinality(Held) + 1 = max_workers
                            THEN full \cup {max_workers}
                            ELSE full
    /\ work_queue' = Tail(work_queue)
    /\ UNCHANGED <<fan_pc, aliases, max_workers, yielded, results, threads,
                   quit_asked, peak_workers, batch_start>>
    /\ UNCHANGED <<checker_vars, build_vars, call_vars>>

\* The fetch ends, the session goes back to the idle list and the future is
\* set.
FinishFetch(w) ==
    /\ workers[w].pc = "fetch"
    /\ \E outcome \in FetchOutcomes :
        LET task == workers[w].task
            r == fetch_single_product(aliases[task], workers[w].driver,
                                      driver_pool, outcome)
        IN  /\ driver_pool' = r.pool
            /\ futures' = [futures EXCEPT ![task] =
                              IF r.raised THEN FutureException
                              ELSE FutureResult(r.value)]
    /\ workers' = [workers EXCEPT ![w] = WorkerWaiting]
    /\ UNCHANGED <<fan_pc, aliases, max_workers, work_queue, yielded, results,
                   threads, created, quit_asked, peak_workers, full,
                   batch_start>>
    /\ UNCHANGED <<checker_vars, build_vars, call_vars>>

\* for future in as_completed(...): alias, result = future.result();
\* results[alias] = result.  future.result() re-raises what the work item
\* raised.
AsCompleted ==
    /\ fan_pc = "as_completed"
    /\ \E i \in (1..Len(aliases)) \ yielded :
        /\ FutureDone(futures[i])
        /\ yielded' = yielded \cup {i}
        /\ IF futures[i].state = "EXCEPTION"
           THEN /\ fan_pc' = "unwinding"
                /\ UNCHANGED results
           ELSE /\ results' = store_result(results, aliases[i],
                                            futures[i].value)
                /\ UNCHANGED fan_pc
    /\ UNCHANGED <<aliases, max_workers, work_queue, futures, threads, workers,
                   driver_pool, created, quit_asked, peak_workers, full,
                   batch_start>>
    /\ UNCHANGED <<checker_vars, build_vars, call_vars>>

\* The with block's exit, shutdown(wait=True): it returns when the queue is
\* drained and every thread has ended.
\* Variant that does not wait.
ExecutorJoined_nowait == TRUE

ExecutorJoined ==
    /\ work_queue = <<>>
    /\ \A w \in 1..MaxWorkers : workers[w].pc = "wait"

\* The end of get_product_details_parallel: the loop is over, or an exception
\* is leaving it; either way through the with block's exit.
ExecutorExit ==
    /\ \/ fan_pc = "as_completed" /\ yielded = 1..Len(aliases)
       \/ fan_pc = "unwinding"
    /\ ExecutorJoined
    /\ fan_pc' = IF fan_pc = "unwinding" THEN "raised" ELSE "returned"
    /\ threads' = 0
    /\ UNCHANGED <<aliases, max_workers, work_queue, futures, yielded, results,
                   workers, driver_pool, created, quit_asked, peak_workers,
                   full, batch_start>>
    /\ UNCHANGED <<checker_vars, build_vars, call_vars>>

\* __del__, when nothing refers to the client any more.
Del ==
    /\ fan_pc \in {"ready", "returned", "raised"}
    /\ \E failing \in SUBSET ({PrimaryDriver} \cup 1..created) :
        LET r == del_(driver_pool, failing)
        IN  /\ quit_asked' = r.asked
            /\ fan_pc' = IF r.raised THEN "del_raised" ELSE "closed"
    /\ UNCHANGED <<aliases, max_workers, work_queue, futures, yielded, results,
                   threads, workers, driver_pool, created, peak_workers, full,
                   batch_start>>
    /\ UNCHANGED <<checker_vars, build_vars, call_vars>>

FanoutNext ==
    \/ GetProductDetailsParallel
    \/ \E w \in 1..MaxWorkers : StartFetch(w)
    \/ \E w \in 1..MaxWorkers : FinishFetch(w)
    \/ AsCompleted
    \/ ExecutorExit
    \/ Del

FanoutSpec == Init /\ [][FanoutNext]_vars

\* The same, with the scheduling the interpreter gives: a thread that can run
\* runs, and a call made on the main thread goes on while it can.
FanoutFairSpec == Init /\ [][FanoutNext]_vars /\ WF_vars(FanoutNext)

\* ----------------------------------------------------------- one entity build
\* info = self._extract_detailed_info(detailed_info)
ExtractDetailedInfo ==
    /\ build_pc = "extract"
    /\ LET r == extract_detailed_info(detailed_info)
       IN  /\ build_pc' = IF r.raised THEN "raised" ELSE "construct"
           /\ info' = r.value
    /\ UNCHANGED <<product, detailed_info, product_obj>>
    /\ UNCHANGED <<checker_vars, fan_vars, call_vars>>

\* product_obj = Product(...); products.append(product_obj)
ConstructProduct ==
    /\ build_pc = "construct"
    /\ LET r == Product(product, StoreOf("110001"), info)
       IN  /\ build_pc' = IF r.raised THEN "raised" ELSE "built"
           /\ product_obj' = IF r.raised THEN NoProduct ELSE r.value
    /\ UNCHANGED <<product, detailed_info, info>>
    /\ UNCHANGED <<checker_vars, fan_vars, call_vars>>

BuildNext ==
    \/ ExtractDetailedInfo
    \/ ConstructProduct

BuildSpecInit ==
    RunInit /\ ClientInit /\ BuildInit /\ CallsIdle

BuildSpec == BuildSpecInit /\ [][BuildNext]_vars

\* ------------------------------------------------- the stand-alone script
\* src/main.py's _create_product_objects: the fan-out is over the entries
\* that have an alias, the loop over all of them.
CreateProductObjectsScript ==
    /\ pc = "create_product_objects"
    /\ dispatched' = Len(CatalogAliases(raw_products))
    /\ \/ /\ products' = BuildProducts_script(raw_products, store)
          /\ pc' = "partition"
          /\ UNCHANGED exc
          /\ UNCHANGED raw_products
       \/ \E e \in CreateErrors :
          /\ pc' = "failed"
          /\ exc' = e
          /\ raw_products' = <<>>
          /\ UNCHANGED products
    /\ UNCHANGED <<config_vars, available_products,
                   unavailable_products, all_products, should_force_notify,
                   diff_vars, notify_vars, store_vars, crash_obs>>
    /\ UNCHANGED aux_vars

\* Runs of src/main.py: the same classes, with its own
\* _create_product_objects.
ScriptNext ==
    \/ CheckerInit
    \/ CheckPincode
    \/ SetStorePreferences
    \/ GetProducts
    \/ CheckCatalog
    \/ CreateProductObjectsScript
    \/ PartitionProducts
    \/ NotifyForce
    \/ GetPreviousState
    \/ UpdateState
    \/ NotifyNewlyAvailable
    \/ NotifyBasic

ScriptSpec == Init /\ [][ScriptNext]_vars

\* ------------------------------------------ runs for several store selections
\* Config.PINCODE set to one of two pincodes.
StorePincodes == {"110001", "400001"}

CheckerInitStores == CheckerInitFrom(StorePincodes)

\* One process after another, each configured with its own PINCODE, against
\* the same Redis.
StoreNext ==
    \/ CheckerInitStores
    \/ CheckPincode
    \/ SetStorePreferences
    \/ GetProducts
    \/ CheckCatalog
    \/ CreateProductObjects
    \/ PartitionProducts
    \/ NotifyForce
    \/ GetPreviousState
    \/ UpdateState
    \/ NotifyNewlyAvailable
    \/ NotifyBasic

StoreSpec == Init /\ [][StoreNext]_vars

\* ------------------------------------------------ one command-line invocation
\* cli.main: checker = ProductAvailabilityChecker(), then
\* checker.run(force_notify=force, dry_run=dry_run).
CliInit ==
    /\ RunInit /\ ClientInit /\ BuildIdle
    /\ notify_args = NoNotifyArgs
    /\ cli_args \in CliArgs
    /\ health = NoHealth

CliMain ==
    /\ pc = "idle"
    /\ cli_args.valid
    /\ CheckerInitFrom(Pincodes)

\* run's should_force_notify, from the flag click passed and the
\* configuration read from the environment.
PartitionProductsCli ==
    PartitionProductsWith(click_flag(cli_args.force),
                          Config_FORCE_NOTIFY(cli_args.FORCE_NOTIFY))

CliNext ==
    \/ CliMain
    \/ CheckPincode
    \/ SetStorePreferences
    \/ GetProducts
    \/ CheckCatalog
    \/ CreateProductObjects
    \/ PartitionProductsCli
    \/ NotifyForce
    \/ GetPreviousState
    \/ UpdateState
    \/ NotifyNewlyAvailable
    \/ NotifyBasic

CliSpec == CliInit /\ [][CliNext]_vars

\* ------------------------------------------------------ one health check
HealthInit ==
    /\ RunInit /\ ClientInit /\ BuildIdle
    /\ notify_args = NoNotifyArgs
    /\ cli_args = NoCliArgs
    /\ health \in HealthRuns

\* redis_ok = check_redis_connection()
CheckRedisConnection ==
    /\ health.pc = "start"
    /\ health' = [health EXCEPT !.pc = "redis_checked",
                                !.redis_ok = check_redis_connection(health.ping)]
    /\ UNCHANGED <<checker_vars, fan_vars, build_vars, notify_args, cli_args>>

\* fetch_time_ok = check_last_fetch_time()
CheckLastFetchTime ==
    /\ health.pc = "redis_checked"
    /\ health' = [health EXCEPT
                     !.pc = "fetch_checked",
                     !.fetch_time_ok =
                         check_last_fetch_time(health.file, health.now,
                                               health.interval)]
    /\ UNCHANGED <<checker_vars, fan_vars, build_vars, notify_args, cli_args>>

\* all_passed, then sys.exit
HealthExit ==
    /\ health.pc = "fetch_checked"
    /\ health' = [health EXCEPT
                     !.pc = "exited",
                     !.exit_code = exit_status(health.redis_ok,
                                               health.fetch_time_ok)]
    /\ UNCHANGED <<checker_vars, fan_vars, build_vars, notify_args, cli_args>>

HealthNext ==
    \/ CheckRedisConnection
    \/ CheckLastFetchTime
    \/ HealthExit

HealthSpec == HealthInit /\ [][HealthNext]_vars

\* ------------------------------------------------- one send_notification call
NotifySpecInit ==
    /\ RunInit /\ ClientInit /\ BuildIdle
    /\ notify_args \in NotifyArgs
    /\ cli_args = NoCliArgs
    /\ health = NoHealth

\* TelegramNotifier.send_notification(products, force, log_to_console)
SendNotification ==
    /\ notify_args.valid
    /\ notifier_calls = 0
    /\ sent' = send_notification(notify_args.products, notify_args.force,
                                 notify_args.log_to_console,
                                 notify_args.token /\ notify_args.channel,
                                 notify_args.http)
    /\ notified' = notify_args.products
    /\ notifier_calls' = 1
    /\ UNCHANGED <<pc, exc, config_vars, catalog_vars, should_force_notify,
                   diff_vars, store_vars, crash_obs>>
    /\ UNCHANGED aux_vars

NotifyNext == SendNotification

NotifySpec == NotifySpecInit /\ [][NotifyNext]_vars

\* ------------------------------------------------------------------ claims
SnapshotKey == RedisKey(store)

Snapshot == smembers(redis, SnapshotKey)

FatalErrors == {"ValueError_PINCODE", "ValueError_NoProducts"}

\* C1: with Redis reachable for the read and the write, for every previous
\* snapshot A and every current product list with available aliases B,
\* get_newly_available_products returns exactly the available products whose
\* alias is in B \ A, and afterwards the stored snapshot is exactly B.
C1_DeltaAndSnapshot ==
    (/\ pc = "notify_new"
     /\ ~expired
     /\ ~read_fault
     /\ snap_writes = 1 => update_ok)
    => LET B == AvailableAliases(all_products)
           A == IF snap_reads = 1 THEN previous_available ELSE Snapshot
           InDelta(p) == p.available /\ p.alias \in B \ A
       IN  /\ newly_available = SelectSeq(all_products, InDelta)
           /\ Snapshot = B

\* C2: no transition is permanently missed: an alias that is in the stored
\* snapshot without any delivered message having named it, and that is still
\* available, is in the delta of the next run that reads the snapshot.
C2_NoMissedTransition ==
    (pc = "update_state" /\ ~read_fault)
    => (unreported \cap current_available) \subseteq newly_available_aliases

C4_Idempotent_Original ==
    /\ (pc = "update_state" /\ repeat_call) => newly_available_aliases = {}
    /\ (pc = "notify_new" /\ repeat_call /\ ~expired)
       => newly_available = <<>> /\ Snapshot = current_available

\* C4 amended: the same, when Redis is reachable for the read and the write
\* of the second call.
C4_Idempotent ==
    /\ (pc = "update_state" /\ repeat_call /\ ~read_fault)
       => newly_available_aliases = {}
    /\ (pc = "notify_new" /\ repeat_call /\ ~read_fault /\ update_ok /\ ~expired)
       => newly_available = <<>> /\ Snapshot = current_available

C4_Witness ==
    /\ pc = "notify_new"
    /\ repeat_call /\ ~read_fault /\ update_ok /\ ~expired
    /\ current_available # {}
    /\ newly_available = <<>>
    /\ Snapshot = current_available

\* C5: an update_state(store, S) that returns True leaves the stored set of
\* that store exactly S: no alias of the old snapshot outside S remains, and
\* an empty S leaves no snapshot.
C5_UpdateReplaces ==
    (pc = "notify_new" /\ snap_writes = 1 /\ update_ok /\ ~expired)
    => /\ Snapshot = current_available
       /\ current_available = {} => SnapshotKey \notin DOMAIN redis

C5_Witness ==
    /\ pc = "notify_new" /\ snap_writes = 1 /\ update_ok /\ ~expired
    /\ ~read_fault
    /\ previous_available # {}
    /\ current_available = {}
    /\ Snapshot = {}

\* C6: a force run hands the Notifier the full product list, the available
\* products followed by the unavailable ones, whatever the snapshot holds,
\* and neither reads nor writes the snapshot, which it leaves as it found it.
C6_ForceMode ==
    /\ should_force_notify => snap_reads = 0 /\ snap_writes = 0
    /\ (pc = "done" /\ should_force_notify)
       => /\ notifier_calls = 1
          /\ notified = available_products \o unavailable_products
          /\ sent.message = notified
          /\ ~expired => redis = redis_before

C6_Witness ==
    /\ pc = "done" /\ should_force_notify /\ use_state_management
    /\ Len(notified) = 2
    /\ notified[1].available /\ ~notified[2].available
    /\ notified[1].alias \notin Snapshot
    /\ Snapshot # {}
    /\ redis = redis_before

\* C7: when Redis cannot be reached at construction, construction does not
\* raise, and a non-force run hands the Notifier exactly the currently
\* available products (no call when there is none), without any snapshot
\* access.
C7_DegradedMode ==
    /\ exc # "ConnectionError"
    /\ ~use_state_management => snap_reads = 0 /\ snap_writes = 0
    /\ (pc = "done" /\ ~use_state_management /\ ~should_force_notify)
       => IF available_products # <<>>
          THEN /\ notifier_calls = 1
               /\ notified = available_products
               /\ sent.message = notified
          ELSE notifier_calls = 0

C7_Witness ==
    /\ pc = "done" /\ ~use_state_management /\ ~should_force_notify
    /\ Len(available_products) = 1 /\ Len(unavailable_products) = 1
    /\ Len(notified) = 1
    /\ notified[1].alias \in Snapshot
    /\ redis = redis_before

\* C8: get_previous_state never raises; it returns the empty set when the
\* store has no snapshot key and when the read fails, and the stored set
\* otherwise.
C8_GetPreviousState ==
    /\ exc # "RedisError_read"
    /\ (pc = "update_state" /\ ~expired)
       => previous_available =
             IF read_fault THEN {}
             ELSE IF SnapshotKey \in DOMAIN redis
                  THEN redis[SnapshotKey].members
                  ELSE {}

C8_Witness ==
    /\ pc = "update_state" /\ ~expired
    /\ read_fault
    /\ SnapshotKey \in DOMAIN redis
    /\ previous_available = {}

\* C9: a missing PINCODE or an empty catalog ends the run at once with a
\* ValueError: no run gets past either test in that condition, and the
\* failed run has dispatched no detail fetch, has not read or written the
\* snapshot and has not called the Notifier.
C9_FatalStopsRun ==
    /\ (pc = "failed" /\ exc \in FatalErrors)
       => /\ dispatched = 0
          /\ snap_reads = 0 /\ snap_writes = 0
          /\ notifier_calls = 0
          /\ ~expired => redis = redis_before
    /\ pc \in {"set_store_preferences", "get_products", "check_catalog",
               "create_product_objects", "partition", "handle_notifications",
               "update_state", "notify_new", "done"}
       => PINCODE # NoPincode
    /\ pc \in {"create_product_objects", "partition"} => raw_products # <<>>

C9_Witness ==
    /\ pc = "failed" /\ exc = "ValueError_NoProducts"
    /\ use_state_management
    /\ raw_products = <<>>
    /\ Snapshot # {}

\* C10: the only exceptions that escape ProductAvailabilityChecker.run are
\* the two fatal ones, the missing PINCODE and the empty catalog.
C10_OnlyFatalEscape ==
    pc = "failed" => exc \in FatalErrors

\* The work item of index i failed: its fetch returned nothing or it raised.
Failed(i) ==
    \/ futures[i].state = "EXCEPTION"
    \/ futures[i].state = "RESULT" /\ futures[i].value = None

\* get_product_details_parallel has ended, by return or by exception.
CallEnded == fan_pc \in {"returned", "raised"}

\* How many times session d is in the idle list, and how many threads hold it.
IdleCount(d) == Cardinality({i \in 1..Len(driver_pool) : driver_pool[i] = d})

HolderCount(d) == Cardinality({w \in 1..MaxWorkers : workers[w].driver = d})

\* C11: a detail fetch that fails for one alias, by returning nothing or by
\* raising inside the worker, does not abort the batch: the call returns
\* normally, with None recorded for that alias and every other alias mapped
\* to its own result.
C11_FailedFetchIsolated ==
    /\ fan_pc \notin {"unwinding", "raised"}
    /\ fan_pc = "returned"
       => \A i \in 1..Len(aliases) :
            /\ aliases[i] \in DOMAIN results
            /\ results[aliases[i]] =
                  IF Failed(i) THEN None ELSE DetailOf(aliases[i])

\* C12: a call over N distinct aliases of which K fail ends by returning a
\* mapping with exactly N keys, one per alias, in which exactly the K failed
\* aliases map to None and the other N-K to their fetched detail.
C12_MappingComplete ==
    CallEnded
    => /\ fan_pc = "returned"
       /\ DOMAIN results = {aliases[i] : i \in 1..Len(aliases)}
       /\ Cardinality(DOMAIN results) = Len(aliases)
       /\ Cardinality({a \in DOMAIN results : results[a] = None})
             = Cardinality({i \in 1..Len(aliases) : Failed(i)})
       /\ \A i \in 1..Len(aliases) :
            aliases[i] \in DOMAIN results
            => IF Failed(i)
               THEN results[aliases[i]] = None
               ELSE results[aliases[i]] = DetailOf(aliases[i])

\* C13: in every state of every interleaving of _get_driver_from_pool and
\* _return_driver_to_pool, each session created is either idle in the pool,
\* once, or held by exactly one thread, never both, and nothing else is
\* idle or held.
C13_SessionExclusive ==
    /\ \A d \in 1..created : IdleCount(d) + HolderCount(d) = 1
    /\ \A i \in 1..Len(driver_pool) : driver_pool[i] \in 1..created
    /\ \A w \in 1..MaxWorkers :
          workers[w].driver = NoDriver \/ workers[w].driver \in 1..created

C13_Witness ==
    /\ batch_start.created = 2
    /\ Cardinality(Held) = 2
    /\ driver_pool = <<>>
    /\ \E v, w \in Held : workers[v].driver # workers[w].driver

\* C14: at most max_workers detail fetches are in flight at any time,
\* however many aliases the batch has.
C14_BoundedParallelism == Cardinality(InFlight) <= max_workers

C14_Witness ==
    /\ fan_pc = "as_completed"
    /\ Len(aliases) > max_workers
    /\ max_workers = 2
    /\ Cardinality(InFlight) = max_workers
    /\ work_queue # <<>>

\* C15: a session acquired by a work item is released on every exit path:
\* at any time every session created is idle or held by a thread that is
\* still fetching, and when get_product_details_parallel ends, by return or
\* by exception, no session is held and the idle list holds every session
\* created.
C15_SessionsReleased ==
    /\ Len(driver_pool) + Cardinality(Held) = created
    /\ Held \subseteq InFlight
    /\ CallEnded
       => /\ Held = {}
          /\ {driver_pool[i] : i \in 1..Len(driver_pool)} = 1..created

C15_Witness ==
    /\ fan_pc = "raised"
    /\ Len(aliases) = 3
    /\ \A i \in 1..Len(aliases) : futures[i].state = "EXCEPTION"
    /\ created = 2
    /\ Len(driver_pool) = 2

\* C16: the fan-out is a barrier: when get_product_details_parallel ends,
\* by return or by exception, so that its caller can go on to build items,
\* use the snapshot or notify, no fetch is in flight, no work item is queued
\* and every future is finished.
C16_Barrier ==
    CallEnded
    => /\ InFlight = {}
       /\ work_queue = <<>>
       /\ \A i \in 1..Len(aliases) : FutureDone(futures[i])

C16_Witness ==
    /\ fan_pc = "raised"
    /\ Len(aliases) = 3
    /\ Cardinality(yielded) = 1
    /\ \E i \in 1..Len(aliases) : futures[i].state = "RESULT"
    /\ InFlight = {}

\* C17: sessions are created lazily and reused: a session is created only
\* when the idle list is empty, the sessions created never outnumber the
\* largest max_workers requested, and a batch that follows one which used
\* the same max_workers in full creates no session.
C17_LazyReuse ==
    /\ [](/\ created <= peak_workers
          /\ batch_start.reached => created = batch_start.created)
    /\ [][created' # created => driver_pool = <<>>]_vars

C17_Witness ==
    /\ batch_start.reached
    /\ max_workers = 2
    /\ Cardinality(Held) = 2
    /\ created = 2
    /\ peak_workers = 2

\* C18: sessions are terminated only at shutdown, and then every session the
\* client created, the primary one and every pooled one, is asked to
\* terminate, whichever of them fail to, and no exception leaves __del__.
C18_DisposalSweep ==
    /\ fan_pc \notin {"closed", "del_raised"} => quit_asked = {}
    /\ fan_pc # "del_raised"
    /\ fan_pc = "closed" => quit_asked = {PrimaryDriver} \cup (1..created)

\* The value int() gives a field, or 0 when the field is missing or
\* malformed.
WellFormed(v) == v.type # "missing" /\ ~int(v).raised

NumberOrDefault(v) == IF WellFormed(v) THEN int(v).value ELSE 0

TextOrDefault(v) == IF v.type = "string" THEN v.text ELSE ""

\* C19: the availability flag of a built item is true exactly when the raw
\* entry's numeric "available" is greater than zero: -1, 0 and 1 give
\* false, false and true, and an entry without the field gives false.
C19_AvailabilityFlag ==
    build_pc = "built"
    => /\ product.available = Num(-1) => ~product_obj.available
       /\ product.available = Num(0) => ~product_obj.available
       /\ product.available = Num(1) => product_obj.available
       /\ product.available = Missing => ~product_obj.available
       /\ product_obj.available
             <=> (product.available.type = "number" /\ product.available.num > 0)

C19_Witness ==
    /\ build_pc = "built"
    /\ product.available = Num(1)
    /\ product_obj.available
    /\ detailed_info.kind = "dict"

\* C20: entity building is total: whatever fields of the raw entry and of
\* the detail record are missing or malformed, nothing is raised and the
\* item built has the field's value where it is well-formed and the default
\* (0, 0.0, the empty string) where it is missing or malformed.
C20_BuildTotal ==
    /\ build_pc # "raised"
    /\ build_pc = "built"
       => /\ product_obj.price = NumberOrDefault(product.price)
          /\ product_obj.inventory_quantity =
                NumberOrDefault(detailed_info.inventory_quantity)
          /\ product_obj.weight = NumberOrDefault(detailed_info.weight)
          /\ product_obj.inventory_low_stock_quantity =
                NumberOrDefault(detailed_info.inventory_low_stock_quantity)
          /\ product_obj.total_order_count =
                NumberOrDefault(detailed_info.total_order_count)
          /\ product_obj.compare_price =
                NumberOrDefault(detailed_info.compare_price)
          /\ product_obj.product_type =
                TextOrDefault(detailed_info.metafields.product_type)
          /\ product_obj.uom = TextOrDefault(detailed_info.metafields.uom)

\* The other of the two detail records that stand for "no detail".
OtherAbsent(d) == IF d.kind = "None" THEN EmptyDetail ELSE NoDetail

\* C21: for the same raw entry, an absent detail record (None) and an empty
\* one give the same result: the extraction raises for neither and yields
\* the same info, all defaults, so the build ends alike for both, with
\* identical items whose enrichment fields are 0, 0, 0, 0, 0.0, "" and "".
C21_AbsentEqualsEmpty ==
    (detailed_info.kind \in {"None", "empty"} /\ build_pc # "extract")
    => LET other == extract_detailed_info(OtherAbsent(detailed_info))
           built == Product(product, StoreOf("110001"), other.value)
       IN  /\ ~other.raised
           /\ info = other.value
           /\ build_pc \in {"raised", "built"}
              => (build_pc = "raised" <=> built.raised)
           /\ build_pc = "built"
              => /\ product_obj = built.value
                 /\ product_obj.inventory_quantity = 0
                 /\ product_obj.weight = 0
                 /\ product_obj.inventory_low_stock_quantity = 0
                 /\ product_obj.total_order_count = 0
                 /\ product_obj.compare_price = 0
                 /\ product_obj.product_type = ""
                 /\ product_obj.uom = ""

C21_Witness ==
    /\ build_pc = "built"
    /\ detailed_info.kind = "None"
    /\ product.available = Num(1)
    /\ product_obj = Product(product, StoreOf("110001"),
                             extract_detailed_info(EmptyDetail).value).value

\* The aliases stored under any snapshot key.
StoredAliases == UNION {redis[key].members : key \in DOMAIN redis}

\* C22: a raw entry without an alias is dropped before the fan-out: no
\* detail fetch is dispatched for it and no item is built for it, so the
\* empty alias is in no product list, delta, snapshot or notification; and
\* the entries with an alias give one item each, in catalog order.
C22_NoIdentifierDropped ==
    /\ pc = "partition"
       => /\ dispatched = Len(CatalogAliases(raw_products))
          /\ Len(products) = Len(CatalogAliases(raw_products))
          /\ \A i \in 1..Len(products) :
                products[i].alias = CatalogAliases(raw_products)[i]
    /\ NoAlias \notin SeqAliases(products) \cup SeqAliases(all_products)
                      \cup SeqAliases(available_products)
                      \cup SeqAliases(unavailable_products)
    /\ NoAlias \notin current_available \cup newly_available_aliases
                      \cup SeqAliases(newly_available)
    /\ NoAlias \notin StoredAliases
    /\ NoAlias \notin SeqAliases(notified) \cup SeqAliases(sent.message)

\* C23: in a non-force run with state management the Notifier is called
\* only when the delta is not empty, and then with exactly the delta items,
\* the available products whose alias is in current \ previous; a run whose
\* available set is contained in the previous snapshot it read sends
\* nothing.
C23_OnlyDelta ==
    (pc = "done" /\ ~should_force_notify /\ use_state_management)
    => LET InDelta(p) ==
               p.available /\ p.alias \in current_available \ previous_available
           delta == IF snap_reads = 1 THEN SelectSeq(all_products, InDelta)
                    ELSE <<>>
       IN  /\ notifier_calls = IF delta # <<>> THEN 1 ELSE 0
           /\ notifier_calls = 1
              => /\ notified = delta
                 /\ sent.message = delta
           /\ current_available \subseteq previous_available
              => notifier_calls = 0

C23_Witness ==
    /\ pc = "done" /\ ~should_force_notify /\ use_state_management
    /\ snap_reads = 1 /\ ~read_fault
    /\ current_available # {}
    /\ current_available \subseteq previous_available
    /\ notifier_calls = 0

\* C24: in a non-force run, with or without state management, no
\* unavailable product is handed to the Notifier or is in the message it
\* renders or delivers.
C24_NoUnavailableNotified ==
    (pc = "done" /\ ~should_force_notify)
    => /\ \A i \in 1..Len(notified) : notified[i].available
       /\ \A i \in 1..Len(sent.message) : sent.message[i].available

C24_Witness ==
    /\ pc = "done" /\ ~should_force_notify /\ use_state_management
    /\ unavailable_products # <<>>
    /\ \E i \in 1..Len(unavailable_products) :
          unavailable_products[i].alias \in SeqAliases(notified)
    /\ sent.channel = "telegram"

\* C25: with preview requested or a credential missing, send_notification
\* delivers nothing externally: it returns True, having printed the message
\* when there is something to notify; it makes a delivery request exactly
\* when preview is off, both credentials are set and there is an item to
\* notify.
C25_PreviewNoDelivery ==
    (notify_args.valid /\ notifier_calls = 1)
    => LET a == notify_args
           creds == a.token /\ a.channel
           to_notify == IF a.force THEN a.products
                        ELSE SelectSeq(a.products, IsAvailable)
       IN  /\ (a.log_to_console \/ ~creds)
              => /\ sent.channel # "telegram"
                 /\ sent.ok /\ ~sent.raised
                 /\ to_notify # <<>>
                    => sent.channel = "console" /\ sent.message = to_notify
           /\ sent.channel = "telegram"
              <=> (~a.log_to_console /\ creds /\ to_notify # <<>>)

C25_Witness ==
    /\ notify_args.valid /\ notifier_calls = 1
    /\ ~notify_args.log_to_console
    /\ notify_args.token /\ ~notify_args.channel
    /\ notify_args.http = "error"
    /\ sent.channel = "console"
    /\ sent.ok

\* C26: a delivery that fails, by a transport exception or a non-OK
\* response, makes send_notification return False without raising; the
\* Notifier is not called again in the run, and the run ends normally as it
\* does when the delivery succeeds.
C26_DeliveryFailure ==
    /\ ~sent.raised
    /\ exc # "RequestException"
    /\ (sent.channel = "telegram" /\ ~sent.ok)
       => /\ pc = "done"
          /\ exc = "none"
          /\ notifier_calls = 1

C26_Witness ==
    /\ pc = "done"
    /\ sent.channel = "telegram" /\ ~sent.ok
    /\ use_state_management /\ ~should_force_notify
    /\ update_ok
    /\ notifier_calls = 1

\* C27: the result of get_product_details_parallel is a function of the
\* per-alias fetch outcomes alone, whatever the completion order and
\* whatever session served which alias: the call raises exactly when some
\* fetch raised, and otherwise returns the mapping that gives every alias
\* the outcome of its own fetch.
C27_InterleavingIndependent ==
    CallEnded
    => /\ fan_pc = "raised"
          <=> \E i \in 1..Len(aliases) : futures[i].state = "EXCEPTION"
       /\ fan_pc = "returned"
          => /\ DOMAIN results = {aliases[i] : i \in 1..Len(aliases)}
             /\ \A i \in 1..Len(aliases) :
                   results[aliases[i]] = futures[i].value

C27_Witness ==
    /\ fan_pc = "returned"
    /\ Len(aliases) = 3
    /\ created = 2
    /\ futures[1].value = None
    /\ futures[2].value # None
    /\ futures[3].value # None
    /\ results[aliases[1]] = None
    /\ results[aliases[2]] = DetailOf(aliases[2])

\* C28: the fan-out ends with a mapping: once get_product_details_parallel
\* has submitted its work items, it eventually returns, a fetch that gets no
\* response in time counting as a failed fetch of its alias only.
C28_FanoutReturns == (fan_pc = "as_completed") ~> (fan_pc = "returned")

\* C29: after every non-force run with state management whose store
\* operations succeeded, the stored snapshot is exactly the set of aliases
\* available in that run: empty when nothing is available, and empty when
\* the catalog yields no item at all.
C29_SnapshotAfterRun ==
    (/\ pc = "done"
     /\ ~should_force_notify /\ use_state_management
     /\ ~expired
     /\ ~read_fault
     /\ snap_writes = 1 => update_ok)
    => Snapshot = AvailableAliases(all_products)

\* C30: the overwrite of the snapshot is atomic: an update_state of which a
\* command raises returns False without raising, and leaves the stored
\* snapshot either as it was or as the complete new set.
C30_AtomicOverwrite ==
    [][(snap_writes' = snap_writes + 1 /\ ~update_ok')
       => /\ pc' = "notify_new"
          /\ exc' # "RedisError_write"
          /\ smembers(redis', RedisKey(all_products[1].store))
                \in {smembers(redis, RedisKey(all_products[1].store)),
                     current_available}]_vars

\* C31: in a run the stored snapshot is read at most once and written at
\* most once, the write coming after the read and before any call of the
\* Notifier; nothing but that write changes the store in a run; in force
\* mode and without state management the snapshot is neither read nor
\* written.
C31_ReadOnceWriteOnce ==
    /\ [](/\ snap_reads <= 1
          /\ snap_writes <= snap_reads
          /\ (should_force_notify \/ ~use_state_management)
             => snap_reads = 0 /\ snap_writes = 0)
    /\ [][/\ snap_writes' > snap_writes
             => snap_reads = 1 /\ notifier_calls = 0
          /\ (notifier_calls' > notifier_calls /\ snap_reads = 1)
             => snap_writes = 1
          /\ (redis' # redis /\ ~expired')
             => snap_writes' = snap_writes + 1]_vars

C31_Witness ==
    /\ pc = "done"
    /\ use_state_management /\ ~should_force_notify
    /\ snap_reads = 1 /\ snap_writes = 1
    /\ notifier_calls = 1
    /\ redis # redis_before

\* C32: a run passes through its phases in the fixed order, never going
\* back and never skipping a phase before the diff (the branches that do not
\* diff notify and end in one step), and it ends in failure only from the
\* catalog-fetch phase or the diff phase: no failure of the detail fan-out
\* or of entity building ends the run.  The phases: 1 catalog fetch,
\* 2 detail fan-out and entity build, 3 partition, 4 diff, 5 notify, 6 done.
C32_PhaseOrder ==
    [][LET Phase(at) ==
               CASE at \in {"check_availability", "set_store_preferences",
                            "get_products", "check_catalog"} -> 1
                 [] at = "create_product_objects" -> 2
                 [] at = "partition" -> 3
                 [] at \in {"handle_notifications", "update_state"} -> 4
                 [] at = "notify_new" -> 5
                 [] at = "done" -> 6
                 [] OTHER -> 0
       IN  (Running /\ pc' # "crashed")
           => /\ pc' = "failed" => Phase(pc) \in {1, 4}
              /\ pc' # "failed"
                 => \/ Phase(pc') \in {Phase(pc), Phase(pc) + 1}
                    \/ /\ pc = "handle_notifications" /\ pc' = "done"
                       /\ Branch(should_force_notify, use_state_management)
                             # "diff"]_vars

\* C33: every write refreshes the retention horizon: after any update_state
\* call, whatever it returns, the snapshot key, if it exists, carries the
\* 7-day expiry; and once Redis has dropped the key, the next run reads an
\* empty previous set and its delta is every available alias.
C33_RetentionRefreshed ==
    /\ [][snap_writes' = snap_writes + 1
          => (RedisKey(all_products[1].store) \in DOMAIN redis'
              => redis'[RedisKey(all_products[1].store)].ttl)]_vars
    /\ []((pc = "update_state" /\ ~read_fault /\ ~expired
           /\ SnapshotKey \notin DOMAIN redis)
          => /\ previous_available = {}
             /\ newly_available_aliases = AvailableAliases(all_products))

\* C34: snapshots are scoped by store selection: a run changes no key but
\* REDIS_KEY_PREFIX, its store context and ":available", and a run
\* configured with another pincode than the run that wrote the last snapshot
\* has read another key and writes another key, leaving that snapshot as it
\* was written.
C34_StoreScoped ==
    /\ []((pc = "update_state" /\ last_write.valid
           /\ last_write.pincode # PINCODE)
          => SnapshotKey # RedisKey(last_write.store))
    /\ [][snap_writes' = snap_writes + 1
          => /\ \A key \in DOMAIN redis \cup DOMAIN redis' :
                  smembers(redis', key) # smembers(redis, key)
                  => key = REDIS_KEY_PREFIX \o store \o ":available"
             /\ (last_write.valid /\ last_write.pincode # PINCODE)
                => smembers(redis', RedisKey(last_write.store))
                      = last_write.B]_vars

\* C35: a run started from the command line is in force mode exactly when
\* the --force flag is given or, when it is not given, when FORCE_NOTIFY is
\* configured true; a run in force mode notifies every product.
C35_ForceSelection ==
    (cli_args.valid /\ pc \in {"handle_notifications", "update_state",
                               "notify_new", "done"})
    => /\ should_force_notify
          <=> (cli_args.force \/ Config_FORCE_NOTIFY(cli_args.FORCE_NOTIFY))
       /\ (pc = "done" /\ should_force_notify)
          => notifier_calls = 1 /\ notified = all_products

====
